---------------------------- MODULE Spec2Model ----------------------------
(***************************************************************************)
(* Model of sync_images.py: ImageSyncer and main().                        *)
(*                                                                         *)
(* One run of main() is a process that connects to the sqlite state        *)
(* database, checks the S3 bucket, removes the records of files that are   *)
(* gone (cleanup_deleted_files) and then classifies and uploads every      *)
(* image file (sync_images).  The local filesystem, the committed content  *)
(* of sync_state.db and the S3 bucket outlive a run; everything else is    *)
(* per-process state.  The environment changes files between any two       *)
(* steps, makes S3 or sqlite calls fail, and interrupts the process.       *)
(***************************************************************************)
EXTENDS Integers, Sequences, FiniteSets, TLC

(* ------------------------------ bounds -------------------------------- *)
NPaths == 2          \* file names that can appear in photos/
MaxContent == 2      \* distinct byte contents a file can have
MaxMtime == 1        \* distinct modification times
MaxFsChanges == 2    \* filesystem changes the environment makes
MaxFaults == 1       \* failures and interruptions the environment injects

Paths == 1..NPaths               \* ordered as Path objects compare (sorted())
Contents == 1..MaxContent
Mtimes == 1..MaxMtime

\* st_size is a property of the bytes: contents 1,2 have size 1; 3,4 size 2
SizeOf(c) == (c + 1) \div 2
Sizes == {SizeOf(c) : c \in Contents}

NoFile == [content |-> 0, mtime |-> 0]
FileStates == [content : Contents, mtime : Mtimes]

NoRecord == [file_hash |-> 0, file_size |-> 0, last_modified |-> 0, s3_key |-> 0]
NoObject == 0
NoStat == [st_size |-> 0, st_mtime |-> 0]

VARIABLES
    fs,          \* photos/: path -> file state or NoFile
    db,          \* committed rows of file_state: path -> record or NoRecord
    conn,        \* rows as self.conn sees them (committed + pending writes)
    remote,      \* S3 bucket: key -> content stored, or NoObject
    pc,          \* position of the process in main()
    exitStatus,  \* process exit status of the last run (-1 while running)
    db_files,    \* cleanup_deleted_files: rows still to visit
    removed_count,
    image_files, \* sync_images: the sorted candidates
    idx,         \* position of the for loop in image_files
    file_stat,   \* needs_upload: the stat taken at line 100
    file_hash,   \* needs_upload: the digest taken at line 101
    uploaded_count, skipped_count, failed_count,
    fsBudget,    \* filesystem changes the environment may still make
    faultBudget, \* failures and interruptions it may still inject
    \* history of the current run, kept to state the properties
    class,       \* path -> classification made in this run
    putCount,    \* path -> upload_file calls made for it in this run
    putRes,      \* path -> result of its last upload_file call in this run
    setupFailed, \* setup_s3_client raised in this run
    storeFailed, \* a sqlite call raised in this run
    exitReason,  \* how the last run ended
    exitAt,      \* the position at which the last run ended
    curChanged,  \* the filesystem changed since this run started
    start,       \* db and remote as they were when this run started
    prev,        \* summary of the run before this one
    reconciled   \* paths whose row a committed cleanup removed, not re-added

loopVars == <<image_files, idx, file_stat, file_hash>>
countVars == <<uploaded_count, skipped_count, failed_count>>
cleanVars == <<db_files, removed_count>>
histVars == <<class, putCount, putRes, setupFailed, storeFailed, start, prev, reconciled>>
exitVars == <<exitReason, exitAt>>
vars == <<fs, db, conn, remote, pc, exitStatus, cleanVars, loopVars, countVars,
          fsBudget, faultBudget, histVars, exitVars, curChanged>>

(* --------------------------- pure functions --------------------------- *)

\* get_file_hash: md5 over the whole content; a digest is named by the
\* content it digests (no collisions within the bounded content set)
get_file_hash(f) == f.content

\* Path.stat(): st_size and st_mtime of the file as it is now
stat(f) == [st_size |-> SizeOf(f.content), st_mtime |-> f.mtime]

\* s3_key = filepath.name: all candidates lie directly in photos/, so the
\* name identifies the path
S3Key(p) == p

\* needs_upload that trusts size and modification time and skips the digest
needs_upload_MetadataOnly(st, h, result) ==
    IF result = NoRecord THEN TRUE
    ELSE st.st_size # result.file_size \/ st.st_mtime # result.last_modified

\* needs_upload that asks for an upload of every file
needs_upload_Always(st, h, result) == TRUE

\* needs_upload, lines 108-117: the decision from the stat, the digest and
\* the row fetched from file_state
needs_upload(st, h, result) ==
    IF result = NoRecord THEN TRUE
    ELSE IF h # result.file_hash
            \/ st.st_size # result.file_size
            \/ st.st_mtime # result.last_modified
         THEN TRUE
         ELSE FALSE

\* the three outcomes the boolean of needs_upload stands for
Classify(st, h, result) ==
    IF result = NoRecord THEN "New"
    ELSE IF needs_upload(st, h, result) THEN "Modified" ELSE "Unchanged"

\* Row with the modification time cut to whole seconds below the clock's
\* resolution (the REAL column declared INTEGER)
Row_Truncated(p, h, st) ==
    [file_hash |-> h, file_size |-> st.st_size,
     last_modified |-> 0, s3_key |-> S3Key(p)]

\* the row written by INSERT OR REPLACE, lines 141-145
Row(p, h, st) ==
    [file_hash |-> h, file_size |-> st.st_size,
     last_modified |-> st.st_mtime, s3_key |-> S3Key(p)]

\* get_image_files without the sorted() of line 96: iterdir() order is kept
Sorted_Identity(s) == s

\* sorted(image_files)
Sorted(s) == SortSeq(s, LAMBDA a, b : a < b)

\* the orders in which iterdir() can yield the members of S
Orders(S) == {s \in [1..Cardinality(S) -> S] : \A x \in S : \E i \in DOMAIN s : s[i] = x}

(* ------------------------------- Init --------------------------------- *)

NoneOf(S) == [p \in S |-> "none"]

Init ==
    /\ fs \in [Paths -> FileStates \cup {NoFile}]
    /\ db = [p \in Paths |-> NoRecord]        \* sync_state.db does not exist yet
    /\ conn = db
    /\ remote = [k \in {S3Key(p) : p \in Paths} |-> NoObject]
    /\ pc = "idle"
    /\ exitStatus = -1
    /\ db_files = {} /\ removed_count = 0
    /\ image_files = <<>> /\ idx = 0 /\ file_stat = NoStat /\ file_hash = 0
    /\ uploaded_count = 0 /\ skipped_count = 0 /\ failed_count = 0
    /\ fsBudget = MaxFsChanges
    /\ faultBudget = MaxFaults
    /\ class = NoneOf(Paths) /\ putRes = NoneOf(Paths)
    /\ putCount = [p \in Paths |-> 0]
    /\ setupFailed = FALSE /\ storeFailed = FALSE
    /\ exitReason = "none" /\ exitAt = "none"
    /\ curChanged = FALSE
    /\ start = [db |-> db, remote |-> remote]
    /\ prev = [reason |-> "none", at |-> "none", failed |-> 0, uploaded |-> 0,
               changed |-> FALSE, putFail |-> {}, start |-> start]
    /\ reconciled = {}

(* ----------------------- main(): start and setup ---------------------- *)

\* syncer.close() without a commit, or the process ending: what the
\* connection had pending is lost
Close == conn' = db

\* exit(status), and the finally clause of main()
Exit(status, reason) ==
    /\ pc' = "exited"
    /\ exitStatus' = status
    /\ exitReason' = reason
    /\ exitAt' = pc
    /\ Close
    /\ db_files' = {}
    /\ idx' = 0 /\ file_stat' = NoStat /\ file_hash' = 0

\* the environment injects one more failure
Fault == faultBudget > 0 /\ faultBudget' = faultBudget - 1

\* main() line 209 up to setup_database: a new process opens the database
\* (CREATE TABLE IF NOT EXISTS leaves existing rows alone)
Start ==
    /\ pc \in {"idle", "exited"}
    /\ pc' = "setup_s3_client"
    /\ exitStatus' = -1
    /\ exitReason' = "running" /\ exitAt' = "none"
    /\ conn' = db
    /\ db_files' = {} /\ removed_count' = 0
    /\ image_files' = <<>> /\ idx' = 0 /\ file_stat' = NoStat /\ file_hash' = 0
    /\ uploaded_count' = 0 /\ skipped_count' = 0 /\ failed_count' = 0
    /\ class' = NoneOf(Paths) /\ putRes' = NoneOf(Paths)
    /\ putCount' = [p \in Paths |-> 0]
    /\ setupFailed' = FALSE /\ storeFailed' = FALSE
    /\ prev' = [reason |-> exitReason, at |-> exitAt, failed |-> failed_count,
                uploaded |-> uploaded_count, changed |-> curChanged,
                putFail |-> {p \in Paths : putRes[p] = "fail"}, start |-> start]
    /\ start' = [db |-> db, remote |-> remote]
    /\ curChanged' = FALSE
    /\ UNCHANGED <<fs, db, remote, fsBudget, faultBudget, reconciled>>

\* main() that goes from the setup straight to sync_images (the cleanup
\* is called after it, or not at all)
SetupS3ClientOk_SkipCleanup ==
    /\ pc = "setup_s3_client"
    /\ pc' = "get_image_files"
    /\ UNCHANGED <<fs, db, conn, remote, exitStatus, cleanVars, loopVars, countVars,
                   fsBudget, faultBudget, histVars, exitVars, curChanged>>

\* setup_s3_client: the client is built and head_bucket answers
SetupS3ClientOk ==
    /\ pc = "setup_s3_client"
    /\ pc' = "cleanup_select"
    /\ UNCHANGED <<fs, db, conn, remote, exitStatus, cleanVars, loopVars, countVars,
                   fsBudget, faultBudget, histVars, exitVars, curChanged>>

\* setup_s3_client that logs the error and does not re-raise it
SetupS3ClientFails_Swallowed ==
    /\ pc = "setup_s3_client"
    /\ Fault
    /\ setupFailed' = TRUE
    /\ pc' = "cleanup_select"
    /\ UNCHANGED <<fs, db, conn, remote, exitStatus, cleanVars, loopVars, countVars, fsBudget,
                   class, putCount, putRes, storeFailed, start, prev, reconciled,
                   exitVars, curChanged>>

\* setup_s3_client raises (NoCredentialsError, ClientError): __init__ is
\* called outside the try of main(), so the exception ends the process
\* with a nonzero status
SetupS3ClientFails ==
    /\ pc = "setup_s3_client"
    /\ Fault
    /\ setupFailed' = TRUE
    /\ Exit(1, "setup")
    /\ UNCHANGED <<fs, db, remote, removed_count, image_files, countVars, fsBudget,
                   class, putCount, putRes, storeFailed, start, prev, reconciled, curChanged>>

(* ----------------------- cleanup_deleted_files ------------------------ *)

\* lines 192-195: SELECT filepath FROM file_state
CleanupSelect ==
    /\ pc = "cleanup_select"
    /\ db_files' = {p \in Paths : conn[p] # NoRecord}
    /\ removed_count' = 0
    /\ pc' = "cleanup_loop"
    /\ UNCHANGED <<fs, db, conn, remote, exitStatus, loopVars, countVars,
                   fsBudget, faultBudget, histVars, exitVars, curChanged>>

\* a cleanup that also deletes the object of the row it removes
CleanupVisit_DeleteRemote(p) ==
    /\ pc = "cleanup_loop"
    /\ p \in db_files
    /\ db_files' = db_files \ {p}
    /\ IF fs[p] = NoFile
       THEN /\ conn' = [conn EXCEPT ![p] = NoRecord]
            /\ remote' = [remote EXCEPT ![S3Key(p)] = NoObject]
            /\ removed_count' = removed_count + 1
       ELSE UNCHANGED <<conn, remote, removed_count>>
    /\ UNCHANGED <<fs, db, pc, exitStatus, loopVars, countVars,
                   fsBudget, faultBudget, histVars, exitVars, curChanged>>

\* lines 196-199: one iteration of the loop; fetchall() has no ORDER BY,
\* so the rows come in any order
CleanupVisit(p) ==
    /\ pc = "cleanup_loop"
    /\ p \in db_files
    /\ db_files' = db_files \ {p}
    /\ IF fs[p] = NoFile
       THEN /\ conn' = [conn EXCEPT ![p] = NoRecord]
            /\ removed_count' = removed_count + 1
       ELSE UNCHANGED <<conn, removed_count>>
    /\ UNCHANGED <<fs, db, remote, pc, exitStatus, loopVars, countVars,
                   fsBudget, faultBudget, histVars, exitVars, curChanged>>

\* cleanup_deleted_files without the commit of line 202
CleanupCommit_NoCommit ==
    /\ pc = "cleanup_loop"
    /\ db_files = {}
    /\ pc' = "get_image_files"
    /\ UNCHANGED <<fs, db, conn, remote, exitStatus, cleanVars, loopVars, countVars,
                   fsBudget, faultBudget, histVars, exitVars, curChanged>>

\* lines 201-203: commit when something was removed, then return to main()
CleanupCommit ==
    /\ pc = "cleanup_loop"
    /\ db_files = {}
    /\ IF removed_count > 0
       THEN /\ db' = conn
            /\ reconciled' = reconciled \cup {p \in Paths : db[p] # NoRecord /\ conn[p] = NoRecord}
       ELSE UNCHANGED <<db, reconciled>>
    /\ pc' = "get_image_files"
    /\ UNCHANGED <<fs, conn, remote, exitStatus, cleanVars, loopVars, countVars,
                   fsBudget, faultBudget, class, putCount, putRes, setupFailed, storeFailed, prev,
                   start, exitVars, curChanged>>

\* a sqlite call of cleanup_deleted_files raises (the SELECT, a DELETE or
\* the commit): nothing catches it before main() line 223, which exits 1;
\* close() drops the deletes that were not committed
CleanupStoreError ==
    /\ \/ pc = "cleanup_select"
       \/ pc = "cleanup_loop" /\ \E p \in db_files : fs[p] = NoFile
       \/ pc = "cleanup_loop" /\ db_files = {} /\ removed_count > 0
    /\ Fault
    /\ storeFailed' = TRUE
    /\ Exit(1, "error")
    /\ UNCHANGED <<fs, db, remote, removed_count, image_files, countVars, fsBudget,
                   class, putCount, putRes, setupFailed, prev, reconciled, start, curChanged>>

(* ---------------------------- sync_images ----------------------------- *)

\* get_image_files and lines 164-170: iterdir() yields the files in any
\* order, sorted() fixes it
GetImageFiles ==
    /\ pc = "get_image_files"
    /\ \E order \in Orders({p \in Paths : fs[p] # NoFile}) :
           image_files' = Sorted(order)
    /\ uploaded_count' = 0 /\ skipped_count' = 0 /\ failed_count' = 0
    /\ idx' = 1
    /\ pc' = IF image_files' = <<>> THEN "return" ELSE "stat"
    /\ UNCHANGED <<fs, db, conn, remote, exitStatus, cleanVars, file_stat, file_hash,
                   fsBudget, faultBudget, histVars, exitVars, curChanged>>

\* the candidate of the current iteration
filepath == image_files[idx]

\* the for loop moves to the next candidate, or past the last one
NextFile ==
    /\ idx' = idx + 1
    /\ pc' = IF idx + 1 > Len(image_files) THEN "return" ELSE "stat"
    /\ file_stat' = NoStat
    /\ file_hash' = 0

\* sync_images whose except clause logs the error but counts nothing
ProcessingError_NotCounted ==
    /\ class' = [class EXCEPT ![filepath] = "error"]
    /\ NextFile
    /\ UNCHANGED <<uploaded_count, skipped_count, failed_count>>

\* sync_images without the try of line 173: the exception ends the loop
ProcessingError_Abort ==
    /\ class' = [class EXCEPT ![filepath] = "error"]
    /\ idx' = Len(image_files) + 1
    /\ pc' = "return"
    /\ file_stat' = NoStat
    /\ file_hash' = 0
    /\ UNCHANGED <<uploaded_count, skipped_count, failed_count>>

\* lines 183-185: an exception out of needs_upload is logged and counted
ProcessingError ==
    /\ failed_count' = failed_count + 1
    /\ class' = [class EXCEPT ![filepath] = "error"]
    /\ NextFile
    /\ UNCHANGED <<uploaded_count, skipped_count>>

\* needs_upload line 100: filepath.stat() (raises when the file is gone)
NeedsUploadStat ==
    /\ pc = "stat"
    /\ IF fs[filepath] = NoFile
       THEN ProcessingError
       ELSE /\ file_stat' = stat(fs[filepath])
            /\ pc' = "hash"
            /\ UNCHANGED <<idx, file_hash, countVars, class>>
    /\ UNCHANGED <<fs, db, conn, remote, exitStatus, cleanVars, image_files,
                   fsBudget, faultBudget, putCount, putRes, setupFailed, storeFailed, prev,
                   reconciled, start, exitVars, curChanged>>

\* needs_upload line 101: get_file_hash (open() raises when the file is gone)
NeedsUploadHash ==
    /\ pc = "hash"
    /\ IF fs[filepath] = NoFile
       THEN ProcessingError
       ELSE /\ file_hash' = get_file_hash(fs[filepath])
            /\ pc' = "select"
            /\ UNCHANGED <<idx, file_stat, countVars, class>>
    /\ UNCHANGED <<fs, db, conn, remote, exitStatus, cleanVars, image_files,
                   fsBudget, faultBudget, putCount, putRes, setupFailed, storeFailed, prev,
                   reconciled, start, exitVars, curChanged>>

\* get_file_hash raises although the file exists (it cannot be read)
NeedsUploadHashFails ==
    /\ pc = "hash"
    /\ fs[filepath] # NoFile
    /\ Fault
    /\ ProcessingError
    /\ UNCHANGED <<fs, db, conn, remote, exitStatus, cleanVars, image_files,
                   fsBudget, putCount, putRes, setupFailed, storeFailed, prev,
                   reconciled, start, exitVars, curChanged>>

\* needs_upload lines 102-117 and sync_images lines 175, 180-182
NeedsUploadSelect ==
    /\ pc = "select"
    /\ LET result == conn[filepath] IN
       /\ class' = [class EXCEPT ![filepath] = Classify(file_stat, file_hash, result)]
       /\ IF needs_upload(file_stat, file_hash, result)
          THEN /\ pc' = "upload_file"
               /\ UNCHANGED <<idx, file_stat, file_hash, countVars>>
          ELSE /\ skipped_count' = skipped_count + 1
               /\ NextFile
               /\ UNCHANGED <<uploaded_count, failed_count>>
    /\ UNCHANGED <<fs, db, conn, remote, exitStatus, cleanVars, image_files,
                   fsBudget, faultBudget, putCount, putRes, setupFailed, storeFailed, prev,
                   reconciled, start, exitVars, curChanged>>

\* the SELECT of needs_upload raises: the except of line 183 catches it,
\* counts the file as failed and the loop goes on
NeedsUploadSelectError ==
    /\ pc = "select"
    /\ Fault
    /\ storeFailed' = TRUE
    /\ ProcessingError
    /\ UNCHANGED <<fs, db, conn, remote, exitStatus, cleanVars, image_files,
                   fsBudget, putCount, putRes, setupFailed, prev,
                   reconciled, start, exitVars, curChanged>>

\* line 179 followed by a break: the first failure ends the loop
UploadReturnsFalse_Break ==
    /\ failed_count' = failed_count + 1
    /\ idx' = Len(image_files) + 1
    /\ pc' = "return"
    /\ file_stat' = NoStat
    /\ file_hash' = 0
    /\ UNCHANGED <<uploaded_count, skipped_count>>

\* upload_to_s3 returned False (line 151): sync_images line 179
UploadReturnsFalse ==
    /\ failed_count' = failed_count + 1
    /\ NextFile
    /\ UNCHANGED <<uploaded_count, skipped_count>>

\* upload_to_s3 lines 121-138: upload_file sends the bytes the file has now;
\* it raises when the file is gone, and line 149 turns that into False
UploadFile ==
    /\ pc = "upload_file"
    /\ putCount' = [putCount EXCEPT ![filepath] = @ + 1]
    /\ IF fs[filepath] = NoFile
       THEN /\ putRes' = [putRes EXCEPT ![filepath] = "fail"]
            /\ UploadReturnsFalse
            /\ UNCHANGED remote
       ELSE /\ remote' = [remote EXCEPT ![S3Key(filepath)] = fs[filepath].content]
            /\ putRes' = [putRes EXCEPT ![filepath] = "ok"]
            /\ pc' = "record"
            /\ UNCHANGED <<idx, file_stat, file_hash, countVars>>
    /\ UNCHANGED <<fs, db, conn, exitStatus, cleanVars, image_files,
                   fsBudget, faultBudget, class, setupFailed, storeFailed, prev,
                   reconciled, start, exitVars, curChanged>>

\* upload_to_s3 with a retry loop around upload_file: after a failure the
\* call is made again
UploadFileFails_Retry ==
    /\ pc = "upload_file"
    /\ Fault
    /\ putCount' = [putCount EXCEPT ![filepath] = @ + 1]
    /\ putRes' = [putRes EXCEPT ![filepath] = "fail"]
    /\ UNCHANGED <<fs, db, conn, remote, pc, exitStatus, cleanVars, loopVars,
                   countVars, fsBudget, class, setupFailed, storeFailed, prev,
                   reconciled, start, exitVars, curChanged>>

\* upload_to_s3 that writes the row before the transfer is known to have
\* succeeded: a failed upload_file leaves the row behind
UploadFileFails_Recorded ==
    /\ pc = "upload_file"
    /\ Fault
    /\ putCount' = [putCount EXCEPT ![filepath] = @ + 1]
    /\ putRes' = [putRes EXCEPT ![filepath] = "fail"]
    /\ fs[filepath] # NoFile
    /\ conn' = [conn EXCEPT ![filepath] = Row(filepath, file_hash, stat(fs[filepath]))]
    /\ db' = conn'
    /\ UploadReturnsFalse
    /\ UNCHANGED <<fs, remote, exitStatus, cleanVars, image_files,
                   fsBudget, class, setupFailed, storeFailed, prev,
                   reconciled, start, exitVars, curChanged>>

\* upload_file raises (network, authorization): nothing is stored, line
\* 149 catches the exception and upload_to_s3 returns False
UploadFileFails ==
    /\ pc = "upload_file"
    /\ Fault
    /\ putCount' = [putCount EXCEPT ![filepath] = @ + 1]
    /\ putRes' = [putRes EXCEPT ![filepath] = "fail"]
    /\ UploadReturnsFalse
    /\ UNCHANGED <<fs, db, conn, remote, exitStatus, cleanVars, image_files,
                   fsBudget, class, setupFailed, storeFailed, prev,
                   reconciled, start, exitVars, curChanged>>

\* upload_to_s3 without the commit of line 146: the row stays pending
RecordState_NoCommit ==
    /\ pc = "record"
    /\ IF fs[filepath] = NoFile
       THEN /\ UploadReturnsFalse
            /\ UNCHANGED conn
       ELSE /\ conn' = [conn EXCEPT ![filepath] = Row(filepath, file_hash, stat(fs[filepath]))]
            /\ uploaded_count' = uploaded_count + 1
            /\ NextFile
            /\ UNCHANGED <<skipped_count, failed_count>>
    /\ UNCHANGED <<fs, db, remote, exitStatus, cleanVars, image_files,
                   fsBudget, faultBudget, class, putCount, putRes, setupFailed, storeFailed,
                   prev, reconciled, start, exitVars, curChanged>>

\* upload_to_s3 lines 140-148: a second stat, INSERT OR REPLACE with the
\* digest computed by needs_upload, commit; sync_images line 177.  The
\* stat raises when the file is gone, which line 149 turns into False
RecordState ==
    /\ pc = "record"
    /\ IF fs[filepath] = NoFile
       THEN /\ UploadReturnsFalse
            /\ UNCHANGED <<db, conn, reconciled>>
       ELSE /\ conn' = [conn EXCEPT ![filepath] = Row(filepath, file_hash, stat(fs[filepath]))]
            /\ db' = conn'
            /\ reconciled' = {q \in reconciled : db'[q] = NoRecord}
            /\ uploaded_count' = uploaded_count + 1
            /\ NextFile
            /\ UNCHANGED <<skipped_count, failed_count>>
    /\ UNCHANGED <<fs, remote, exitStatus, cleanVars, image_files,
                   fsBudget, faultBudget, class, putCount, putRes, setupFailed, storeFailed, prev,
                   start, exitVars, curChanged>>

\* the INSERT or the commit of lines 141-146 raises: line 149 catches the
\* sqlite error and upload_to_s3 returns False.  When it was the commit
\* that failed, the inserted row either stays pending in the connection
\* or is rolled back
RecordStoreError ==
    /\ pc = "record"
    /\ fs[filepath] # NoFile
    /\ Fault
    /\ \E pending \in BOOLEAN :
           conn' = IF pending
                   THEN [conn EXCEPT ![filepath] = Row(filepath, file_hash, stat(fs[filepath]))]
                   ELSE conn
    /\ storeFailed' = TRUE
    /\ UploadReturnsFalse
    /\ UNCHANGED <<fs, db, remote, exitStatus, cleanVars, image_files,
                   fsBudget, class, putCount, putRes, setupFailed, prev,
                   reconciled, start, exitVars, curChanged>>

\* main() that exits 0 whatever sync_images counted
SyncReturn_ExitZero ==
    /\ pc = "return"
    /\ Exit(0, "completed")
    /\ UNCHANGED <<fs, db, remote, removed_count, image_files, countVars,
                   fsBudget, faultBudget, histVars, curChanged>>

\* sync_images lines 187-188 and main() lines 214-218, 226-227
SyncReturn ==
    /\ pc = "return"
    /\ Exit(IF failed_count > 0 THEN 1 ELSE 0, "completed")
    /\ UNCHANGED <<fs, db, remote, removed_count, image_files, countVars,
                   fsBudget, faultBudget, histVars, curChanged>>

(* --------------------------- the environment -------------------------- *)

RunningPcs == {"setup_s3_client", "cleanup_select", "cleanup_loop", "get_image_files",
               "stat", "hash", "select", "upload_file", "record", "return"}

\* KeyboardInterrupt: inside the try of main() line 220 exits 1 and the
\* finally clause closes the connection; during __init__ it is not caught
\* and the interpreter ends with a nonzero status.  Either way what was
\* not committed is lost
Interrupt ==
    /\ pc \in RunningPcs
    /\ Fault
    /\ Exit(1, "interrupt")
    /\ UNCHANGED <<fs, db, remote, removed_count, image_files, countVars,
                   fsBudget, histVars, curChanged>>

\* a file of photos/ is created, rewritten, touched or deleted
FsChange(p, f) ==
    /\ fsBudget > 0
    /\ f # fs[p]
    /\ fs' = [fs EXCEPT ![p] = f]
    /\ fsBudget' = fsBudget - 1
    /\ curChanged' = TRUE
    /\ prev' = [prev EXCEPT !.changed = TRUE]
    /\ UNCHANGED <<db, conn, remote, pc, exitStatus, cleanVars, loopVars, countVars,
                   faultBudget, class, putCount, putRes, setupFailed, storeFailed,
                   reconciled, start, exitVars>>

Next ==
    \/ Start
    \/ SetupS3ClientOk
    \/ SetupS3ClientFails
    \/ CleanupSelect
    \/ \E p \in Paths : CleanupVisit(p)
    \/ CleanupCommit
    \/ CleanupStoreError
    \/ GetImageFiles
    \/ NeedsUploadStat
    \/ NeedsUploadHash
    \/ NeedsUploadHashFails
    \/ NeedsUploadSelect
    \/ NeedsUploadSelectError
    \/ UploadFile
    \/ UploadFileFails
    \/ RecordState
    \/ RecordStoreError
    \/ SyncReturn
    \/ Interrupt
    \/ \E p \in Paths, f \in FileStates \cup {NoFile} : FsChange(p, f)

Spec == Init /\ [][Next]_vars

\* the steps the program takes when nothing fails: a running process goes
\* on to its next statement, and the external scheduler starts the next
\* pass after the last one has exited
ProcessStep ==
    \/ Start
    \/ SetupS3ClientOk
    \/ CleanupSelect
    \/ \E p \in Paths : CleanupVisit(p)
    \/ CleanupCommit
    \/ GetImageFiles
    \/ NeedsUploadStat
    \/ NeedsUploadHash
    \/ NeedsUploadSelect
    \/ UploadFile
    \/ RecordState
    \/ SyncReturn

\* passes are run again and again; the environment's changes and failures
\* are finitely many (fsBudget, faultBudget)
FairSpec == Init /\ [][Next]_vars /\ WF_vars(ProcessStep)

(* ============================= properties ============================= *)

Completed == pc = "exited" /\ exitReason = "completed"

\* the candidates of the current pass
Enumerated == {image_files[i] : i \in DOMAIN image_files}

\* the row of p is the one an upload of the file as it is now would write
Matches(p) == db[p] = Row(p, get_file_hash(fs[p]), stat(fs[p]))

(* ---- C1 ---- *)

\* C1 as stated: after a completed pass, a second pass over an unchanged
\* filesystem uploads nothing -- uploaded_count = 0 and no upload_file call
C1_Original ==
    (Completed /\ prev.reason = "completed" /\ ~prev.changed)
        => /\ uploaded_count = 0
           /\ \A p \in Paths : putCount[p] = 0

\* C1 (amended): when the first pass completed with failed_count = 0 and
\* the filesystem has not changed since that pass began, the second pass
\* issues no upload_file call, classifies no candidate New or Modified
\* and keeps uploaded_count = 0, at every step and at its end
C1_Idempotent ==
    (prev.reason = "completed" /\ prev.failed = 0 /\ ~prev.changed)
        => /\ uploaded_count = 0
           /\ \A p \in Paths : /\ putCount[p] = 0
                               /\ class[p] \in {"none", "Unchanged", "error"}
           /\ Completed /\ failed_count = 0
                => \A p \in Enumerated : class[p] = "Unchanged"

\* a second pass that skipped every file the first pass uploaded
C1_Witness ==
    /\ Completed
    /\ prev.reason = "completed" /\ prev.failed = 0 /\ ~prev.changed
    /\ prev.uploaded = NPaths
    /\ skipped_count = NPaths

(* ---- C2 ---- *)

\* C2: a failed upload_file adds exactly one to failed_count, leaves the
\* rows of the store as they were, and the loop goes on to the next
\* candidate; a completed pass has classified every candidate and called
\* upload_file once for each one it found New or Modified
C2_FailureIsolation ==
    /\ [][\A p \in Paths :
            (putRes[p] # "fail" /\ putRes'[p] = "fail")
                => /\ failed_count' = failed_count + 1
                   /\ uploaded_count' = uploaded_count
                   /\ db' = db /\ conn' = conn
                   /\ idx' = idx + 1
                   /\ pc' = IF idx < Len(image_files) THEN "stat" ELSE "return"]_vars
    /\ [](Completed =>
            \A q \in Enumerated :
                /\ class[q] # "none"
                /\ class[q] \in {"New", "Modified"} <=> putCount[q] = 1)

\* the first candidate's upload failed, the second was still uploaded
C2_Witness ==
    /\ Completed
    /\ \E p, q \in Enumerated :
          /\ p < q
          /\ putRes[p] = "fail" /\ db[p] = NoRecord
          /\ putRes[q] = "ok" /\ db[q] # NoRecord
    /\ failed_count = 1

(* ---- C3 ---- *)

\* C3: a completed pass during which the filesystem did not change leaves
\* no row for a path that has no file; and a path whose row a cleanup
\* removed has no row until it is uploaded again, so a pass that meets
\* the file again classifies it New, never Modified or Unchanged
C3_DeletionReconciled ==
    /\ (Completed /\ ~curChanged)
          => \A p \in Paths : fs[p] = NoFile => db[p] = NoRecord
    /\ \A p \in reconciled :
          /\ db[p] = NoRecord
          /\ class[p] \in {"none", "New", "error"}

\* a file whose row an earlier pass removed is back, found New and uploaded
C3_Witness ==
    /\ pc = "record"
    /\ removed_count = 0
    /\ filepath \in reconciled
    /\ class[filepath] = "New"
    /\ putRes[filepath] = "ok"

(* ---- C4 ---- *)

\* C4: the exit status is 0 exactly when sync_images returned with
\* failed_count = 0, and nonzero in every other case, among them a failed
\* setup and an interruption
C4_ExitStatus ==
    pc = "exited" =>
        /\ exitStatus = 0 <=> (exitReason = "completed" /\ failed_count = 0)
        /\ exitStatus # 0 <=> (exitReason # "completed" \/ failed_count > 0)
        /\ exitReason \in {"setup", "interrupt"} => exitStatus # 0
        /\ setupFailed => exitStatus # 0

\* a pass that uploaded one file and failed on another exits nonzero
C4_Witness ==
    /\ Completed
    /\ uploaded_count > 0 /\ failed_count > 0
    /\ exitStatus = 1

(* ---- C5 ---- *)

MaxField == 2        \* values each of digest, size and mtime takes in SpecClassify
Fields == 1..MaxField

\* needs_upload about to decide for a candidate: every stat, digest and
\* fetched row (or none) over Fields
InitClassify ==
    /\ fs = [p \in Paths |-> [content |-> 1, mtime |-> 1]]
    /\ image_files = Sorted([i \in 1..NPaths |-> NPaths + 1 - i])
    /\ idx \in 1..NPaths
    /\ file_stat \in [st_size : Fields, st_mtime : Fields]
    /\ file_hash \in Fields
    /\ \E r \in {NoRecord} \cup
                  [file_hash : Fields, file_size : Fields, last_modified : Fields,
                   s3_key : {S3Key(image_files[idx])}] :
           db = [p \in Paths |-> IF p = image_files[idx] THEN r ELSE NoRecord]
    /\ conn = db
    /\ remote = [k \in {S3Key(p) : p \in Paths} |->
                    IF db[k] = NoRecord THEN NoObject ELSE db[k].file_hash]
    /\ pc = "select"
    /\ exitStatus = -1
    /\ db_files = {} /\ removed_count = 0
    /\ uploaded_count = 0 /\ skipped_count = 0 /\ failed_count = 0
    /\ fsBudget = 0 /\ faultBudget = 0
    /\ class = NoneOf(Paths) /\ putRes = NoneOf(Paths)
    /\ putCount = [p \in Paths |-> 0]
    /\ setupFailed = FALSE /\ storeFailed = FALSE
    /\ exitReason = "running" /\ exitAt = "none"
    /\ curChanged = FALSE
    /\ start = [db |-> db, remote |-> remote]
    /\ prev = [reason |-> "none", at |-> "none", failed |-> 0, uploaded |-> 0,
               changed |-> FALSE, putFail |-> {}, start |-> start]
    /\ reconciled = {}

NextClassify == NeedsUploadSelect

SpecClassify == InitClassify /\ [][NextClassify]_vars

\* C5: needs_upload answers New (upload) when no row is stored, whatever
\* the digest, size and mtime; Modified (upload) when a row is stored and
\* the digest or the size or the mtime differs from it; Unchanged (skip)
\* when a row is stored and all three equal it
C5_Classification ==
    [][pc = "select" =>
        LET p == filepath
            r == conn[p]
            differs == \/ file_hash # r.file_hash
                       \/ file_stat.st_size # r.file_size
                       \/ file_stat.st_mtime # r.last_modified
        IN /\ r = NoRecord
                => class'[p] = "New" /\ pc' = "upload_file"
           /\ (r # NoRecord /\ differs)
                => class'[p] = "Modified" /\ pc' = "upload_file"
           /\ (r # NoRecord /\ ~differs)
                => /\ class'[p] = "Unchanged"
                   /\ pc' # "upload_file"
                   /\ skipped_count' = skipped_count + 1]_vars

\* Modified although size and mtime equal the stored ones: the digest alone differs
C5_Witness ==
    /\ pc = "upload_file"
    /\ class[filepath] = "Modified"
    /\ conn[filepath].file_hash # file_hash
    /\ conn[filepath].file_size = file_stat.st_size
    /\ conn[filepath].last_modified = file_stat.st_mtime

(* ---- C6 ---- *)

\* C6: once a sqlite call has raised, the pass is over -- the process has
\* exited through main()'s except clause and no further candidate is
\* being processed
C6_StoreErrorsFatal ==
    storeFailed => (pc = "exited" /\ exitReason = "error")

(* ---- C7 ---- *)

C8_SelfHealing ==
    /\ [](\A p \in prev.putFail :
            ~prev.changed =>
                /\ class[p] \in {"none", "New", "Modified", "error"}
                /\ Completed => (p \in Enumerated /\ class[p] # "none")
                /\ (Completed /\ class[p] # "error") => putCount[p] = 1)
    /\ <>[](\A p \in Paths : fs[p] # NoFile => Matches(p))
    /\ <>[](failed_count = 0 /\ \A p \in Paths : putCount[p] = 0)

\* the file whose upload failed in the pass before was uploaded by this
\* pass, which counted no failure and left a matching row
C8_Witness ==
    /\ Completed /\ failed_count = 0
    /\ prev.reason = "completed" /\ prev.failed > 0 /\ ~prev.changed
    /\ prev.putFail # {}
    /\ \A p \in prev.putFail : putRes[p] = "ok" /\ Matches(p)

(* ---- C9 ---- *)

\* the rows a complete pass without failures leaves for the files f
ExpectedStore(f) ==
    [p \in Paths |-> IF f[p] = NoFile THEN NoRecord
                     ELSE Row(p, get_file_hash(f[p]), stat(f[p]))]

\* the bucket such a pass leaves when started with rows d0 and bucket r0
ExpectedRemote(f, d0, r0) ==
    [k \in DOMAIN r0 |->
        IF \E p \in Paths : /\ S3Key(p) = k /\ f[p] # NoFile
                            /\ needs_upload(stat(f[p]), get_file_hash(f[p]), d0[p])
        THEN f[k].content
        ELSE r0[k]]

\* C9: an interruption commits nothing; a complete pass without failures
\* over files that did not change ends with the rows ExpectedStore and the
\* bucket ExpectedRemote of the state it started from, and a complete pass
\* without failures that follows an interrupted one, the files unchanged
\* since the interrupted one began, ends with those of the state the
\* interrupted pass started from
C9_Reentrant ==
    /\ [][exitReason' = "interrupt" => db' = db]_vars
    /\ []((Completed /\ failed_count = 0 /\ ~curChanged)
            => /\ db = ExpectedStore(fs)
               /\ remote = ExpectedRemote(fs, start.db, start.remote))
    /\ []((Completed /\ failed_count = 0 /\ prev.reason = "interrupt" /\ ~prev.changed)
            => /\ db = ExpectedStore(fs)
               /\ remote = ExpectedRemote(fs, prev.start.db, prev.start.remote))

\* the pass before was interrupted between upload_file and the commit of
\* the row, after it had committed another file; this pass skipped the
\* committed file and uploaded the other again
C9_Witness ==
    /\ Completed /\ failed_count = 0
    /\ prev.reason = "interrupt" /\ prev.at = "record" /\ ~prev.changed
    /\ skipped_count > 0 /\ uploaded_count > 0
    /\ db # start.db /\ start.db # prev.start.db

(* ---- C10 ---- *)

\* files present that had no row when the pass started
NeverSeen == {p \in Paths : fs[p] # NoFile /\ start.db[p] = NoRecord}

\* files present whose row matched them when the pass started
Matching ==
    {p \in Paths : fs[p] # NoFile
                   /\ start.db[p] = Row(p, get_file_hash(fs[p]), stat(fs[p]))}

\* the pass ran over a directory of never-seen and matching files only
MixedDirectory ==
    /\ Completed /\ ~curChanged
    /\ NeverSeen # {} /\ Matching # {}
    /\ \A p \in Paths : fs[p] # NoFile => p \in NeverSeen \cup Matching

MixedOutcome ==
    /\ uploaded_count = Cardinality(NeverSeen)
    /\ skipped_count = Cardinality(Matching)
    /\ failed_count = 0
    /\ exitStatus = 0
    /\ \A p \in NeverSeen : putRes[p] = "ok" /\ putCount[p] = 1
    /\ \A p \in Matching : putCount[p] = 0
    /\ \A p \in NeverSeen \cup Matching : db[p] # NoRecord /\ Matches(p)

\* C10 as stated: a pass over never-seen and matching files uploads
\* exactly the never-seen ones, counts them uploaded and the matching
\* ones skipped, fails none, exits 0 and leaves a row for every file
C10_Original == MixedDirectory => MixedOutcome

\* C10 (amended): the same, for a pass in which no upload_file call, no
\* read of a file and no sqlite call failed
C10_MixedPass ==
    (/\ MixedDirectory
     /\ ~storeFailed
     /\ \A p \in Paths : putRes[p] # "fail" /\ class[p] # "error")
        => MixedOutcome

\* the spec's case: one new file uploaded, one matching file skipped
C10_Witness ==
    /\ MixedDirectory
    /\ uploaded_count = 1 /\ skipped_count = 1 /\ failed_count = 0
    /\ exitStatus = 0


(* ---- C11 ---- *)

LoopPcs == {"stat", "hash", "select", "upload_file", "record"}

\* C11: a row is deleted only by cleanup_deleted_files, while no
\* upload_file call of the run has been made; and once a run whose
\* filesystem stood still has made an upload_file call, no row is left
\* for a path that has no file
C11_CleanupFirst ==
    /\ [][\A p \in Paths :
            (db[p] # NoRecord /\ db'[p] = NoRecord)
                => /\ pc = "cleanup_loop"
                   /\ \A q \in Paths : putCount[q] = 0]_vars
    /\ []((~curChanged /\ \E q \in Paths : putCount[q] > 0)
            => \A p \in Paths : fs[p] = NoFile => db[p] = NoRecord)

\* the first upload of a run has just been made; the row of a file that
\* is gone was there at the start and is deleted already
C11_Witness ==
    /\ pc = "record" /\ ~curChanged
    /\ putCount[filepath] = 1
    /\ \A q \in Paths \ {filepath} : putCount[q] = 0
    /\ \E p \in Paths : fs[p] = NoFile /\ start.db[p] # NoRecord /\ db[p] = NoRecord

(* ---- C12 ---- *)

\* C12: the step in which the classification of a candidate raises adds
\* exactly one to failed_count, makes no upload_file call, leaves every
\* row as it was and moves the loop to the next candidate; upload_file is
\* never called for such a candidate and a completed pass has processed
\* every candidate
C12_IoErrorIsolated ==
    /\ [][\A p \in Paths :
            (class[p] # "error" /\ class'[p] = "error")
                => /\ failed_count' = failed_count + 1
                   /\ uploaded_count' = uploaded_count
                   /\ skipped_count' = skipped_count
                   /\ putCount' = putCount /\ remote' = remote
                   /\ db' = db /\ conn' = conn
                   /\ idx' = idx + 1
                   /\ pc' = IF idx < Len(image_files) THEN "stat" ELSE "return"]_vars
    /\ [](\A p \in Paths : class[p] = "error" => putCount[p] = 0)
    /\ [](Completed => \A q \in Enumerated : class[q] # "none")

\* the first candidate could not be read, the second was uploaded
C12_Witness ==
    /\ Completed /\ ~storeFailed
    /\ failed_count = 1 /\ uploaded_count = 1
    /\ \E p, q \in Enumerated :
          /\ p < q
          /\ class[p] = "error" /\ db[p] = start.db[p]
          /\ putRes[q] = "ok" /\ db[q] # NoRecord


(* ---- C13 ---- *)

\* upload_to_s3 is between upload_file and the write of the row of p
InFlight(p) == pc = "record" /\ p = filepath

\* C13 as stated: between the steps of upload_to_s3, a path has a row
\* exactly when an upload_file call for it has succeeded at least once
\* and cleanup has not since removed the row
C13_Original ==
    \A p \in Paths :
        ~InFlight(p) =>
            (db[p] # NoRecord
                <=> /\ remote[S3Key(p)] # NoObject
                    /\ (p \notin reconciled \/ putRes[p] = "ok"))

\* C13 (amended): a path has a row only if an upload_file call for it
\* has succeeded and cleanup has not since removed the row; a row is
\* written only in upload_to_s3 after the upload_file call of that path
\* succeeded; and every upload counted in uploaded_count leaves a row
C13_RecordExistence ==
    /\ [](\A p \in Paths :
            /\ db[p] # NoRecord
                  => (remote[S3Key(p)] # NoObject /\ p \notin reconciled)
            /\ conn[p] # NoRecord => remote[S3Key(p)] # NoObject)
    /\ [][\A p \in Paths :
            (db'[p] # db[p] /\ db'[p] # NoRecord)
                => (pc = "record" /\ putRes[p] = "ok")]_vars
    /\ [][uploaded_count' = uploaded_count + 1
            => (putRes[filepath] = "ok" /\ db'[filepath] # NoRecord)]_vars

\* one file was uploaded and has its row; the upload_file call of another
\* succeeded too, but its row was never written
C13_Witness ==
    /\ Completed /\ uploaded_count > 0
    /\ \E p, q \in Paths :
          /\ putRes[p] = "ok" /\ db[p] # NoRecord
          /\ putRes[q] = "ok" /\ db[q] = NoRecord
          /\ remote[S3Key(q)] # NoObject /\ q \notin reconciled

(* ---- C14 ---- *)

\* C14: the file_hash of every row is the digest of the bytes that the
\* last successful upload_file call for the path transferred
C14_HashMatchesUpload ==
    \A p \in Paths :
        (db[p] # NoRecord /\ ~InFlight(p))
            => db[p].file_hash = get_file_hash([content |-> remote[S3Key(p)]])

(* ---- C15 ---- *)

\* C15: the row of a path changes only by the upsert that follows the
\* successful upload_file call of that same path, or by the cleanup's
\* deletion of a row whose file was absent when the cleanup visited it;
\* no other step, and no upsert of another path, changes it
C15_LifecycleFrame ==
    /\ [][\A p \in Paths :
            db'[p] # db[p] =>
                \/ /\ InFlight(p) /\ putRes[p] = "ok"
                   /\ db'[p] # NoRecord
                   /\ uploaded_count' = uploaded_count + 1
                \/ /\ pc = "cleanup_loop"
                   /\ conn[p] = NoRecord /\ db'[p] = NoRecord]_vars
    /\ [][\A p \in Paths :
            (conn'[p] # conn[p] /\ pc' # "exited")
                => \/ InFlight(p) /\ putRes[p] = "ok" /\ conn'[p] # NoRecord
                   \/ pc = "cleanup_loop" /\ fs[p] = NoFile /\ conn'[p] = NoRecord]_vars


(* ---- C16 ---- *)

\* a step of the loop touches the current candidate only and moves on by
\* at most one candidate
OneAtATime ==
    /\ \A p \in Paths :
          (class'[p] # class[p] \/ putCount'[p] # putCount[p]
              \/ putRes'[p] # putRes[p]) => p = filepath
    /\ (idx' = idx \/ idx' = idx + 1 \/ pc' = "exited")
    /\ (pc' \in LoopPcs \cup {"return"} => image_files' = image_files)

\* C16: the candidates are processed one at a time in ascending order of
\* path: image_files is strictly ascending (so the same directory contents
\* give the same order), every candidate before the current one has been
\* dealt with, no later one has been classified or uploaded, and each
\* step of the loop works on the current candidate only
C16_SequentialOrder ==
    /\ []((pc \in LoopPcs \cup {"return"}) =>
            /\ \A i, j \in DOMAIN image_files :
                  i < j => image_files[i] < image_files[j]
            /\ Enumerated = {p \in Paths : class[p] # "none" \/ putCount[p] > 0}
                               \cup {image_files[i] : i \in idx..Len(image_files)}
            /\ pc \in LoopPcs => idx \in DOMAIN image_files
            /\ \A i \in DOMAIN image_files :
                  /\ i > idx => (class[image_files[i]] = "none"
                                   /\ putCount[image_files[i]] = 0)
                  /\ i < idx => (class[image_files[i]] # "none"
                                   /\ (putRes[image_files[i]] = "ok"
                                          => putCount[image_files[i]] = 1)))
    /\ [][(pc \in LoopPcs) => OneAtATime]_vars

\* the first of two candidates is uploaded and recorded, the second has
\* not been touched yet
C16_Witness ==
    /\ pc = "stat" /\ idx = 2 /\ Len(image_files) = 2
    /\ putRes[image_files[1]] = "ok" /\ db[image_files[1]] # NoRecord
    /\ class[image_files[2]] = "none" /\ putCount[image_files[2]] = 0

(* ---- C18 ---- *)

\* C18: in one pass upload_file is called at most once for a candidate,
\* only for a candidate classified New or Modified, never for one that
\* is Unchanged; a second call for a file that failed needs a new pass
C18_NoRetry ==
    /\ [](\A p \in Paths :
            /\ putCount[p] <= 1
            /\ class[p] \in {"none", "Unchanged", "error"} => putCount[p] = 0)
    /\ [][\A p \in Paths :
            putCount'[p] > putCount[p]
                => /\ pc = "upload_file" /\ p = filepath
                   /\ putCount[p] = 0
                   /\ class[p] \in {"New", "Modified"}]_vars

\* a file whose upload failed in the previous pass is uploaded by this
\* pass with one call, next to a file that is skipped without any call
C18_Witness ==
    /\ Completed
    /\ \E p \in prev.putFail, q \in Paths :
          /\ putCount[p] = 1 /\ putRes[p] = "ok"
          /\ class[q] = "Unchanged" /\ putCount[q] = 0

(* ---- C19 ---- *)

Total == uploaded_count + skipped_count + failed_count

\* C19: the three counters add up to the number of candidates dealt with:
\* to idx - 1 inside the loop and to len(image_files) after it; each
\* candidate increments exactly one counter by one when the loop leaves it
C19_SummaryAccounting ==
    /\ [](pc \in LoopPcs => Total = idx - 1)
    /\ []((pc = "return" \/ Completed) => Total = Len(image_files))
    /\ []((pc = "return" \/ Completed) =>
            /\ skipped_count = Cardinality({p \in Enumerated : class[p] = "Unchanged"})
            /\ uploaded_count + failed_count
                   = Cardinality({p \in Enumerated : class[p] # "Unchanged"}))
    /\ [][(pc \in LoopPcs) =>
            /\ (idx' = idx + 1) <=> (Total' = Total + 1)
            /\ (idx' = idx /\ pc' # "exited") => Total' = Total
            /\ uploaded_count' \in {uploaded_count, uploaded_count + 1}
            /\ skipped_count' \in {skipped_count, skipped_count + 1}
            /\ failed_count' \in {failed_count, failed_count + 1}]_vars

\* a completed pass over two candidates: one skipped, one failed by an
\* exception out of needs_upload
C19_Witness ==
    /\ Completed /\ Len(image_files) = 2
    /\ skipped_count = 1 /\ failed_count = 1 /\ uploaded_count = 0
    /\ \E p \in Enumerated : class[p] = "error"

(* ---- C20 ---- *)

\* C20: no step removes an object from the bucket; in particular the
\* object of a file whose row the cleanup removed is still there
C20_RemoteNeverRemoved ==
    /\ [][\A p \in Paths :
            remote[S3Key(p)] # NoObject => remote'[S3Key(p)] # NoObject]_vars
    /\ [][\A p \in Paths :
            (db[p] # NoRecord /\ db'[p] = NoRecord)
                => (remote'[S3Key(p)] = remote[S3Key(p)]
                      /\ remote[S3Key(p)] # NoObject)]_vars
    /\ [](\A p \in reconciled : remote[S3Key(p)] # NoObject)

\* the object of a deleted file outlives its row and the file
C20_Witness ==
    /\ Completed
    /\ \E p \in reconciled :
          /\ fs[p] = NoFile /\ db[p] = NoRecord
          /\ remote[S3Key(p)] # NoObject


(* ---- C17 ---- *)

\* what a file did in the pass: "error" when needs_upload raised, else the
\* result of its upload_file call ("none" when there was no call)
Outcomes == {"ok", "fail", "error"}

\* a cleanup whose test is inverted: it deletes the rows of the files
\* that exist
cleanup_deleted_files_Inverted(f, d) ==
    [p \in Paths |-> IF d[p] # NoRecord /\ f[p] # NoFile THEN NoRecord ELSE d[p]]

\* cleanup_deleted_files as a function of the directory f and the table d:
\* the rows whose file does not exist are deleted
cleanup_deleted_files(f, d) ==
    [p \in Paths |-> IF d[p] # NoRecord /\ f[p] = NoFile THEN NoRecord ELSE d[p]]

\* the for loop of sync_images from candidate i on, over an unchanging
\* directory f, with the outcome out[p] for each candidate; s holds the
\* table, the bucket and the three counters
RECURSIVE sync_loop(_, _, _, _, _)
sync_loop(files, f, out, i, s) ==
    IF i > Len(files) THEN s
    ELSE LET p == files[i]
             st == stat(f[p])
             h == get_file_hash(f[p])
         IN IF out[p] = "error"
            THEN sync_loop(files, f, out, i + 1, [s EXCEPT !.failed = @ + 1])
            ELSE IF needs_upload(st, h, s.db[p])
            THEN IF out[p] = "ok"
                 THEN sync_loop(files, f, out, i + 1,
                                [s EXCEPT !.remote[S3Key(p)] = f[p].content,
                                          !.db[p] = Row(p, h, st),
                                          !.uploaded = @ + 1])
                 ELSE sync_loop(files, f, out, i + 1, [s EXCEPT !.failed = @ + 1])
            ELSE sync_loop(files, f, out, i + 1, [s EXCEPT !.skipped = @ + 1])

\* sync_images as a function of the directory, the table, the bucket and
\* the outcomes
sync_images(f, d, r, out) ==
    sync_loop(Sorted(CHOOSE order \in Orders({p \in Paths : f[p] # NoFile}) : TRUE),
              f, out, 1,
              [db |-> d, remote |-> r, uploaded |-> 0, skipped |-> 0, failed |-> 0])

\* main(): cleanup_deleted_files, then sync_images
CleanupThenSync(f, d, r, out) ==
    sync_images(f, cleanup_deleted_files(f, d), r, out)

\* the two calls of main() in the other order
SyncThenCleanup(f, d, r, out) ==
    LET s == sync_images(f, d, r, out)
    IN [s EXCEPT !.db = cleanup_deleted_files(f, s.db)]

\* the pass ran to its end over a directory that did not change, and no
\* sqlite call failed
QuietPass == Completed /\ ~curChanged /\ ~storeFailed

\* C17: for a directory that does not change and given outcomes per
\* file, cleanup_deleted_files before sync_images and after it end in the
\* same table, the same bucket and the same counts -- and that common
\* result is the one the pass of main() produced
C17_CleanupSyncCommute ==
    QuietPass =>
        /\ \A out \in [Paths -> Outcomes] :
              CleanupThenSync(fs, start.db, start.remote, out)
                  = SyncThenCleanup(fs, start.db, start.remote, out)
        /\ LET out == [p \in Paths |->
                         IF class[p] = "error" THEN "error" ELSE putRes[p]]
               a == CleanupThenSync(fs, start.db, start.remote, out)
               b == SyncThenCleanup(fs, start.db, start.remote, out)
           IN /\ a = b
              /\ db = b.db /\ remote = b.remote
              /\ uploaded_count = b.uploaded
              /\ skipped_count = b.skipped
              /\ failed_count = b.failed

\* a pass in which the cleanup removed the row of a deleted file and
\* sync_images wrote the row of another
C17_Witness ==
    /\ QuietPass
    /\ \E p, q \in Paths :
          /\ fs[p] = NoFile /\ start.db[p] # NoRecord /\ db[p] = NoRecord
          /\ putRes[q] = "ok" /\ db[q] # start.db[q]

====
